---- MODULE Spec2Model ----
(***************************************************************************)
(* State-machine model of the veesr crowdfunding program                   *)
(* (programs/veesr-programs/src/lib.rs).                                   *)
(*                                                                         *)
(* One action per instruction.  An instruction is atomic: it either        *)
(* commits every effect (account constraints, handler body, and the        *)
(* constraint-driven account closing that runs when the handler returns    *)
(* Ok) or it fails and leaves every account as it was.  The outcome of the *)
(* most recent instruction is kept in `last`.                              *)
(*                                                                         *)
(* Lamports are modelled explicitly: a campaign account holds its storage  *)
(* deposit plus every donation transferred into it; `close = authority`    *)
(* moves the account's whole lamport balance to the authority.             *)
(***************************************************************************)
EXTENDS Integers, FiniteSets, Sequences, TLC

VARIABLES now, balance, campaign, receipt, last, sinceCreate

vars == <<now, balance, campaign, receipt, last, sinceCreate>>

-----------------------------------------------------------------------------
(* Program constants                                                       *)

PLATFORM_WALLET == "platform"

PLATFORM_FEE_BPS == 300

BPS_DIVISOR == 10000

CAMPAIGN_DURATION == 30 * 24 * 60 * 60

MAX_TITLE_LEN == 50

MAX_DESCRIPTION_LEN == 500

-----------------------------------------------------------------------------
(* Bounds of the model                                                     *)

\* Largest value of the unsigned amount type.  The program's u64 is scaled
\* down so that the checker's integers can hold every intermediate value;
\* every checked_* operator below tests against this limit without ever
\* computing a value above it.
MaxU64 == 4194303

\* Lamports each signer wallet starts with.
InitialBalance == 20000

\* Storage deposits charged by `init` and returned by `close`.
CampaignRent == 3

ReceiptRent == 2

\* Clock readings: 0, and deadline-1 .. deadline+MaxLate of a campaign
\* created at time 0.
MaxLate == 1

Signers == {"alice", "bob"}

Creators == {"alice"}

Wallets == Signers \cup {"executor", PLATFORM_WALLET}

\* Accounts a caller may pass as the executor.
Executors == {"executor"}

\* Accounts a caller may pass as the platform wallet.
PlatformArgs == {PLATFORM_WALLET, "executor"}

ClockValues ==
    {0} \cup ((CAMPAIGN_DURATION - 1) .. (CAMPAIGN_DURATION + MaxLate))

\* Smallest total whose fee product exceeds the amount type.
BigAmount == (MaxU64 \div PLATFORM_FEE_BPS) + 1

Targets == {0, 33, 1000}

Amounts == {0, 33, 967, BigAmount, InitialBalance}

TitleLens == {0, MAX_TITLE_LEN, MAX_TITLE_LEN + 1}

DescriptionLens == {0, MAX_DESCRIPTION_LEN, MAX_DESCRIPTION_LEN + 1}

-----------------------------------------------------------------------------
(* Addresses and accounts                                                  *)

CampaignPDA(authority) == "campaign/" \o authority

ReceiptPDA(camp, donor) == "donation/" \o camp \o "/" \o donor

CampaignAddrs == {CampaignPDA(a) : a \in Creators}

ReceiptAddrs == {ReceiptPDA(c, d) : c \in CampaignAddrs, d \in Signers}

\* An address at which no program account exists.
NoAccount == [owner |-> "system"]

NoAddr == "none"

CampaignStatus == {"Active", "Funded", "InProgress", "Completed", "Expired", "Cancelled"}

-----------------------------------------------------------------------------
(* Checked u64 arithmetic: Overflow stands for the None that unwrap()      *)
(* turns into a panic.                                                     *)

Overflow == -1

checked_add(a, b) == IF a > MaxU64 - b THEN Overflow ELSE a + b

checked_sub(a, b) == IF b > a THEN Overflow ELSE a - b

checked_mul(a, b) ==
    IF b = 0 THEN 0
    ELSE IF a > MaxU64 \div b THEN Overflow ELSE a * b

checked_div(a, b) == IF b = 0 THEN Overflow ELSE a \div b

-----------------------------------------------------------------------------
(* Ledger primitives                                                       *)

AllAddrs == Wallets \cup CampaignAddrs \cup ReceiptAddrs

\* system_program::transfer: fails when the source holds less than amt.
CanTransfer(bal, from, amt) == bal[from] >= amt

Transfer(bal, from, to, amt) ==
    [bal EXCEPT ![from] = @ - amt, ![to] = @ + amt]

\* `init, payer = p`: the payer funds the new account's storage deposit.
PayRent(bal, payer, acct, rent) == Transfer(bal, payer, acct, rent)

\* `close = dest`: every lamport of the account goes to dest and the
\* account ceases to exist.
CloseLamports(bal, acct, dest) == Transfer(bal, acct, dest, bal[acct])

\* The outcome of an instruction: who signed it, the accounts passed, the
\* amount it moved (0 when it failed and moved nothing), Ok or the error,
\* and for a create_campaign that got as far as its handler the lengths and
\* target the handler was given.
Result(op, signer, camp, rcpt, amount, executor, result) ==
    [op |-> op, signer |-> signer, campaign |-> camp, receipt |-> rcpt,
     amount |-> amount, executor |-> executor, result |-> result,
     args |-> <<>>]

\* Variant: a donation that fails in its handler keeps the receipt account
\* that `init` created before the handler ran.
RejectedKeepingReceipt(r) ==
    /\ last' = r
    /\ IF /\ r.op = "donate_to_campaign"
          /\ r.result \in {"InvalidDonationAmount", "CampaignNotActive",
                            "CampaignExpired", "InsufficientFunds", "Panic"}
          /\ receipt[r.receipt] = NoAccount
          /\ CanTransfer(balance, r.signer, ReceiptRent)
       THEN /\ receipt' = [receipt EXCEPT ![r.receipt] =
                    [owner |-> "program", donor |-> r.signer,
                     campaign |-> r.campaign, amount |-> r.amount,
                     timestamp |-> now]]
            /\ balance' = PayRent(balance, r.signer, r.receipt, ReceiptRent)
       ELSE UNCHANGED <<receipt, balance>>
    /\ UNCHANGED <<now, campaign, sinceCreate>>

\* A failed instruction is rolled back: only the error it returned to its
\* signer is observable.
Rejected(r) ==
    /\ last' = r
    /\ UNCHANGED <<now, balance, campaign, receipt, sinceCreate>>

-----------------------------------------------------------------------------
(* create_campaign                                                         *)

AnyTargetIsValid(target_amount) == TRUE

ValidTarget(target_amount) == target_amount > 0

\* Variant: the emptiness test on the title is missing.
TitleWithinLimit(title_len) == title_len <= MAX_TITLE_LEN

ValidTitle(title_len) == title_len # 0 /\ title_len <= MAX_TITLE_LEN

ValidDescription(description_len) ==
    description_len # 0 /\ description_len <= MAX_DESCRIPTION_LEN

NewCampaign(authority, title_len, description_len, target_amount, clock) ==
    [owner |-> "program",
     authority |-> authority,
     title_len |-> title_len,
     description_len |-> description_len,
     target_amount |-> target_amount,
     current_amount |-> 0,
     created_at |-> clock,
     deadline |-> clock + CAMPAIGN_DURATION,
     status |-> "Active"]

CreateOutcome(authority, title_len, description_len, target_amount) ==
    LET c == CampaignPDA(authority) IN
    IF campaign[c] # NoAccount THEN "AccountAlreadyInUse"
    ELSE IF ~CanTransfer(balance, authority, CampaignRent) THEN "InsufficientFunds"
    ELSE IF ~ValidTarget(target_amount) THEN "InvalidTargetAmount"
    ELSE IF ~ValidTitle(title_len) THEN "InvalidTitle"
    ELSE IF ~ValidDescription(description_len) THEN "InvalidDescription"
    ELSE "Ok"

CreateCampaign(authority, title_len, description_len, target_amount) ==
    LET c == CampaignPDA(authority)
        out == CreateOutcome(authority, title_len, description_len, target_amount)
        r == [Result("create_campaign", authority, c, NoAddr,
                     IF out = "Ok" THEN target_amount ELSE 0, "none", out)
                EXCEPT !.args = IF out \in {"AccountAlreadyInUse", "InsufficientFunds"}
                                THEN <<>>
                                ELSE <<title_len, description_len, target_amount>>]
    IN
    IF out # "Ok" THEN Rejected(r)
    ELSE /\ campaign' = [campaign EXCEPT ![c] =
                NewCampaign(authority, title_len, description_len, target_amount, now)]
         /\ balance' = PayRent(balance, authority, c, CampaignRent)
         /\ sinceCreate' = [sinceCreate EXCEPT ![c] = "donations_only"]
         /\ last' = r
         /\ UNCHANGED <<now, receipt>>

-----------------------------------------------------------------------------
(* donate_to_campaign                                                      *)

\* Variant: donations are still taken at the deadline itself.
DonationOpenAtDeadline(clock, deadline) == clock <= deadline

DonationOpen(clock, deadline) == clock < deadline

\* Variant: the goal counts as reached only when it is exceeded.
GoalExceeded(current_amount, target_amount) == current_amount > target_amount

GoalReached(current_amount, target_amount) == current_amount >= target_amount

\* Variant: the receipt is written without the donated amount.
ReceiptWithoutAmount(donor, camp, amount, clock) ==
    [owner |-> "program", donor |-> donor, campaign |-> camp,
     amount |-> 0, timestamp |-> clock]

NewReceipt(donor, camp, amount, clock) ==
    [owner |-> "program", donor |-> donor, campaign |-> camp,
     amount |-> amount, timestamp |-> clock]

\* Variant: `init_if_needed`, an existing receipt account is taken over.
ReceiptAddressFree(rp) == FALSE

\* `init` of the receipt fails when an account already lives at its address.
ReceiptAddressInUse(rp) == receipt[rp] # NoAccount

DonateOutcome(donor, c, amount) ==
    LET camp == campaign[c] IN
    IF camp = NoAccount THEN "AccountNotInitialized"
    ELSE IF ReceiptAddressInUse(ReceiptPDA(c, donor)) THEN "AccountAlreadyInUse"
    ELSE IF ~CanTransfer(balance, donor, ReceiptRent) THEN "InsufficientFunds"
    ELSE IF ~(amount > 0) THEN "InvalidDonationAmount"
    ELSE IF camp.status # "Active" THEN "CampaignNotActive"
    ELSE IF ~DonationOpen(now, camp.deadline) THEN "CampaignExpired"
    ELSE IF ~CanTransfer(PayRent(balance, donor, ReceiptPDA(c, donor), ReceiptRent),
                         donor, amount)
         THEN "InsufficientFunds"
    ELSE IF checked_add(camp.current_amount, amount) = Overflow THEN "Panic"
    ELSE "Ok"

DonatedCampaign(camp, amount) ==
    LET total == checked_add(camp.current_amount, amount) IN
    [camp EXCEPT !.current_amount = total,
                 !.status = IF GoalReached(total, camp.target_amount)
                            THEN "Funded" ELSE @]

DonateToCampaign(donor, c, amount) ==
    LET out == DonateOutcome(donor, c, amount)
        rp == ReceiptPDA(c, donor)
        r == Result("donate_to_campaign", donor, c, rp, amount, "none", out)
    IN
    IF out # "Ok" THEN Rejected(r)
    ELSE /\ receipt' = [receipt EXCEPT ![rp] = NewReceipt(donor, c, amount, now)]
         /\ balance' = Transfer(PayRent(balance, donor, rp, ReceiptRent), donor, c, amount)
         /\ campaign' = [campaign EXCEPT ![c] = DonatedCampaign(@, amount)]
         /\ last' = r
         /\ UNCHANGED <<now, sinceCreate>>

-----------------------------------------------------------------------------
(* withdraw_and_complete                                                   *)

\* Variant: the signer is not compared with the stored authority.
AnySignerIsAuthority(camp, authority) == TRUE

\* `has_one = authority`: the signer is the authority stored in the campaign.
HasOneAuthority(camp, authority) == camp.authority = authority

\* Variant: the division is done before the multiplication.
FeeDividedFirst(total_amount) ==
    checked_mul(checked_div(total_amount, BPS_DIVISOR), PLATFORM_FEE_BPS)

\* fee = total.checked_mul(PLATFORM_FEE_BPS).unwrap().checked_div(BPS_DIVISOR).unwrap()
PlatformFee(total_amount) ==
    LET product == checked_mul(total_amount, PLATFORM_FEE_BPS) IN
    IF product = Overflow THEN Overflow ELSE checked_div(product, BPS_DIVISOR)

ExecutorShare(total_amount, fee) == checked_sub(total_amount, fee)

\* Anchor's `close`: the account is handed back to the system program with
\* no data, whatever the handler wrote into it.
CloseAccount(acct) == NoAccount

WithdrawOutcome(authority, c, executor, platform_wallet) ==
    LET camp == campaign[c]
        fee == PlatformFee(camp.current_amount)
    IN
    IF camp = NoAccount THEN "AccountNotInitialized"
    ELSE IF c # CampaignPDA(authority) THEN "ConstraintSeeds"
    ELSE IF ~HasOneAuthority(camp, authority) THEN "ConstraintHasOne"
    ELSE IF platform_wallet # PLATFORM_WALLET THEN "InvalidPlatformWallet"
    ELSE IF camp.status # "Funded" THEN "CampaignNotFunded"
    ELSE IF fee = Overflow THEN "Panic"
    ELSE IF ExecutorShare(camp.current_amount, fee) = Overflow THEN "Panic"
    ELSE IF fee > 0 /\ ~CanTransfer(balance, c, fee) THEN "InsufficientFunds"
    ELSE IF ~CanTransfer(IF fee > 0 THEN Transfer(balance, c, platform_wallet, fee)
                                    ELSE balance,
                         c, ExecutorShare(camp.current_amount, fee))
         THEN "InsufficientFunds"
    ELSE "Ok"

WithdrawTransfers(bal, c, executor, platform_wallet, total_amount) ==
    LET fee == PlatformFee(total_amount)
        amount_to_executor == ExecutorShare(total_amount, fee)
        afterFee == IF fee > 0 THEN Transfer(bal, c, platform_wallet, fee) ELSE bal
    IN
    IF amount_to_executor > 0
    THEN Transfer(afterFee, c, executor, amount_to_executor)
    ELSE afterFee

WithdrawAndComplete(authority, c, executor, platform_wallet) ==
    LET out == WithdrawOutcome(authority, c, executor, platform_wallet)
        total == IF campaign[c] = NoAccount THEN 0 ELSE campaign[c].current_amount
        r == Result("withdraw_and_complete", authority, c, NoAddr,
                    IF out = "Ok" THEN total ELSE 0,
                    IF out = "Ok" THEN executor ELSE "none", out)
    IN
    IF out # "Ok" THEN Rejected(r)
    ELSE /\ balance' = CloseLamports(
                WithdrawTransfers(balance, c, executor, platform_wallet, total),
                c, authority)
         /\ campaign' = [campaign EXCEPT ![c] = CloseAccount(@)]
         /\ sinceCreate' = [sinceCreate EXCEPT ![c] = "none"]
         /\ last' = r
         /\ UNCHANGED <<now, receipt>>

-----------------------------------------------------------------------------
(* cancel_campaign                                                         *)

\* Variant: an expired campaign can be cancelled whatever its status.
CanBeCancelledOnceExpired(status, clock, deadline) ==
    LET is_expired == clock > deadline IN
    status = "Active" \/ is_expired

CanBeCancelled(status, clock, deadline) ==
    LET is_expired == clock > deadline IN
    status = "Active" \/ (is_expired /\ status # "Funded")

\* The handler body: early return when nothing was donated, else the
\* status is set to Cancelled.
CancelBody(camp) ==
    IF camp.current_amount = 0 THEN camp ELSE [camp EXCEPT !.status = "Cancelled"]

\* Variant: the account is left as the handler wrote it.
CancelExitKeepsAccount(camp) == camp

\* Exit of the CancelCampaign context: `close = authority` carries no
\* condition, so it runs after every successful handler return.
CancelExit(camp) == CloseAccount(camp)

CancelExitLamports(bal, c, authority) == CloseLamports(bal, c, authority)

CancelOutcome(authority, c) ==
    LET camp == campaign[c] IN
    IF camp = NoAccount THEN "AccountNotInitialized"
    ELSE IF ~HasOneAuthority(camp, authority) THEN "ConstraintHasOne"
    ELSE IF ~CanBeCancelled(camp.status, now, camp.deadline) THEN "CannotCancelCampaign"
    ELSE "Ok"

CancelCampaign(authority, c) ==
    LET out == CancelOutcome(authority, c)
        total == IF campaign[c] = NoAccount THEN 0 ELSE campaign[c].current_amount
        r == Result("cancel_campaign", authority, c, NoAddr,
                    IF out = "Ok" THEN total ELSE 0, "none", out)
    IN
    IF out # "Ok" THEN Rejected(r)
    ELSE /\ campaign' = [campaign EXCEPT ![c] = CancelExit(CancelBody(@))]
         /\ balance' = CancelExitLamports(balance, c, authority)
         /\ sinceCreate' = [sinceCreate EXCEPT ![c] =
                IF campaign'[c] = NoAccount THEN "none" ELSE "other"]
         /\ last' = r
         /\ UNCHANGED <<now, receipt>>

-----------------------------------------------------------------------------
(* claim_refund                                                            *)

ClaimOutcome(donor, c, rp) ==
    LET camp == campaign[c]
        rec == receipt[rp]
    IN
    IF camp = NoAccount THEN "AccountNotInitialized"
    ELSE IF rec = NoAccount THEN "AccountNotInitialized"
    ELSE IF rp # ReceiptPDA(c, donor) THEN "ConstraintSeeds"
    ELSE IF rec.campaign # c THEN "ConstraintHasOne"
    ELSE IF rec.donor # donor THEN "ConstraintHasOne"
    ELSE IF camp.status # "Cancelled" THEN "CampaignNotCancelled"
    ELSE IF rec.donor # donor THEN "InvalidRefundRequest"
    ELSE IF ~CanTransfer(balance, c, rec.amount) THEN "InsufficientFunds"
    ELSE IF checked_sub(camp.current_amount, rec.amount) = Overflow THEN "Panic"
    ELSE "Ok"

RefundedCampaign(camp, amount_to_refund) ==
    [camp EXCEPT !.current_amount = checked_sub(@, amount_to_refund)]

ClaimRefund(donor, c, rp) ==
    LET out == ClaimOutcome(donor, c, rp)
        amt == IF receipt[rp] = NoAccount THEN 0 ELSE receipt[rp].amount
        r == Result("claim_refund", donor, c, rp,
                    IF out = "Ok" THEN amt ELSE 0, "none", out)
    IN
    IF out # "Ok" THEN Rejected(r)
    ELSE /\ balance' = CloseLamports(Transfer(balance, c, donor, amt), rp, donor)
         /\ campaign' = [campaign EXCEPT ![c] = RefundedCampaign(@, amt)]
         /\ receipt' = [receipt EXCEPT ![rp] = CloseAccount(@)]
         /\ sinceCreate' = [sinceCreate EXCEPT ![c] = "other"]
         /\ last' = r
         /\ UNCHANGED now

-----------------------------------------------------------------------------
(* Clock                                                                   *)

\* Clock::get() is non-decreasing between instructions.
Tick(t) ==
    /\ t > now
    /\ now' = t
    /\ last' = Result("tick", "none", NoAddr, NoAddr, 0, "none", "Ok")
    /\ UNCHANGED <<balance, campaign, receipt, sinceCreate>>

-----------------------------------------------------------------------------
(* Specification                                                           *)

Init ==
    /\ now = 0
    /\ balance = [a \in AllAddrs |-> IF a \in Signers THEN InitialBalance ELSE 0]
    /\ campaign = [c \in CampaignAddrs |-> NoAccount]
    /\ receipt = [r \in ReceiptAddrs |-> NoAccount]
    /\ last = Result("init", "none", NoAddr, NoAddr, 0, "none", "Ok")
    /\ sinceCreate = [c \in CampaignAddrs |-> "none"]

Next ==
    \/ \E a \in Creators, tl \in TitleLens, dl \in DescriptionLens, t \in Targets :
            CreateCampaign(a, tl, dl, t)
    \/ \E d \in Signers, c \in CampaignAddrs, amt \in Amounts :
            DonateToCampaign(d, c, amt)
    \/ \E a \in Signers, c \in CampaignAddrs, e \in Executors, p \in PlatformArgs :
            WithdrawAndComplete(a, c, e, p)
    \/ \E a \in Signers, c \in CampaignAddrs : CancelCampaign(a, c)
    \/ \E d \in Signers, c \in CampaignAddrs, rp \in ReceiptAddrs :
            ClaimRefund(d, c, rp)
    \/ \E t \in ClockValues : Tick(t)

Spec == Init /\ [][Next]_vars

-----------------------------------------------------------------------------
(* Vocabulary of the properties                                            *)

Live(c) == campaign[c] # NoAccount

LiveReceipts(c) ==
    {r \in ReceiptAddrs : receipt[r] # NoAccount /\ receipt[r].campaign = c}

RECURSIVE SumAmounts(_)
SumAmounts(S) ==
    IF S = {} THEN 0
    ELSE LET r == CHOOSE x \in S : TRUE IN receipt[r].amount + SumAmounts(S \ {r})

SumReceipts(c) == SumAmounts(LiveReceipts(c))

\* The step just taken was instruction op and it returned result.
Did(op, result) == last'.op = op /\ last'.result = result

Called(op) == last'.op = op

AccountsUnchanged == UNCHANGED <<balance, campaign, receipt>>

-----------------------------------------------------------------------------
(* C1, C2: cancelling a campaign that holds donations                      *)

\* C1: when cancel_campaign succeeds on a campaign whose current_amount > 0,
\* the campaign account is still open afterwards with status Cancelled,
\* current_amount unchanged and the lamports in campaign custody unchanged;
\* nothing is paid to the authority.
C1_CancelWithDonationsKeepsAccount ==
    [][ \A c \in CampaignAddrs :
          (Did("cancel_campaign", "Ok") /\ last'.campaign = c
             /\ campaign[c].current_amount > 0)
          => /\ campaign'[c] # NoAccount
             /\ campaign'[c].status = "Cancelled"
             /\ campaign'[c].current_amount = campaign[c].current_amount
             /\ balance'[c] = balance[c]
             /\ balance'[campaign[c].authority] = balance[campaign[c].authority]
      ]_vars

\* C2: after the authority cancels a campaign that holds donations, a donor
\* who holds a live receipt for it and claims with that receipt is refunded:
\* claim_refund returns Ok, the donor receives receipt.amount (and the
\* receipt's storage deposit), and current_amount falls by receipt.amount.
C2_RefundAfterCancel ==
    [][ \A c \in CampaignAddrs, d \in Signers :
          LET rp == ReceiptPDA(c, d) IN
          (/\ last.op = "cancel_campaign" /\ last.result = "Ok"
           /\ last.campaign = c /\ last.amount > 0
           /\ Called("claim_refund")
           /\ last'.campaign = c /\ last'.signer = d /\ last'.receipt = rp
           /\ receipt[rp] # NoAccount)
          => /\ last'.result = "Ok"
             /\ balance'[d] = balance[d] + receipt[rp].amount + balance[rp]
             /\ receipt'[rp] = NoAccount
             /\ campaign'[c].current_amount =
                    campaign[c].current_amount - receipt[rp].amount
      ]_vars

-----------------------------------------------------------------------------
(* C4, C5: current_amount against the live receipts                        *)

\* C4: after create_campaign followed by successful donate_to_campaign
\* operations only, current_amount equals the sum of amount over all live
\* receipts that reference the campaign.
C4_DonationsSumToCurrentAmount ==
    \A c \in CampaignAddrs :
        (Live(c) /\ sinceCreate[c] = "donations_only")
        => campaign[c].current_amount = SumReceipts(c)

\* C5: every live campaign has current_amount <= the sum of amount over
\* all live receipts that reference it.
C5_CurrentAmountBoundedByReceipts ==
    \A c \in CampaignAddrs :
        Live(c) => campaign[c].current_amount <= SumReceipts(c)

\* A live campaign holding donations, with more receipt value referencing
\* its address than it holds.
C5_Witness ==
    \E c \in CampaignAddrs :
        /\ Live(c)
        /\ campaign[c].current_amount > 0
        /\ campaign[c].current_amount < SumReceipts(c)

-----------------------------------------------------------------------------
(* C6: the funding transition                                              *)

\* C6: a successful donate_to_campaign of amount a on an Active campaign
\* sets status to Funded in that call iff current_amount + a >=
\* target_amount; otherwise the status remains Active.
C6_FundedIffGoalReached ==
    [][ \A c \in CampaignAddrs :
          (Did("donate_to_campaign", "Ok") /\ last'.campaign = c)
          => /\ campaign[c].status = "Active"
             /\ campaign'[c].current_amount =
                    campaign[c].current_amount + last'.amount
             /\ IF campaign[c].current_amount + last'.amount
                      >= campaign[c].target_amount
                THEN campaign'[c].status = "Funded"
                ELSE campaign'[c].status = "Active"
      ]_vars

\* A donation that brought the campaign exactly to its target just flipped
\* it to Funded.
C6_Witness ==
    /\ last.op = "donate_to_campaign" /\ last.result = "Ok"
    /\ last.amount = 967
    /\ campaign[last.campaign].status = "Funded"
    /\ campaign[last.campaign].current_amount = campaign[last.campaign].target_amount

-----------------------------------------------------------------------------
(* C7: when donations are accepted                                         *)

\* C7: donate_to_campaign is rejected, with no receipt created and no
\* change to current_amount or balances, whenever status # Active
\* (CampaignNotActive) or now >= deadline (CampaignExpired), so also at
\* now = deadline; while now < deadline, so also at now = deadline - 1, a
\* donation with amount > 0 by a donor without a receipt to an Active
\* campaign is accepted (the donor being able to pay the amount and the
\* receipt's storage deposit).
C7_DonationWindow ==
    [][ \A c \in CampaignAddrs, d \in Signers :
          (Called("donate_to_campaign") /\ last'.campaign = c
             /\ last'.signer = d /\ Live(c))
          => LET camp == campaign[c]
                 a == last'.amount
                 rp == ReceiptPDA(c, d)
                 closed == camp.status # "Active" \/ now >= camp.deadline
                 passesInit == a > 0 /\ receipt[rp] = NoAccount
                                 /\ balance[d] >= ReceiptRent
             IN
             /\ closed => (last'.result # "Ok" /\ AccountsUnchanged)
             /\ last'.result = "CampaignNotActive" => camp.status # "Active"
             /\ last'.result = "CampaignExpired"
                    => (camp.status = "Active" /\ now >= camp.deadline)
             /\ (passesInit /\ camp.status # "Active")
                    => last'.result = "CampaignNotActive"
             /\ (passesInit /\ camp.status = "Active" /\ now >= camp.deadline)
                    => last'.result = "CampaignExpired"
             /\ (passesInit /\ ~closed /\ balance[d] >= a + ReceiptRent
                    /\ camp.current_amount + a <= MaxU64)
                    => /\ last'.result = "Ok"
                       /\ receipt'[rp] # NoAccount
                       /\ receipt'[rp].amount = a
      ]_vars

\* A donation was just refused as expired exactly at the deadline of a
\* campaign that took a donation one second before its deadline.
C7_Witness ==
    /\ last.op = "donate_to_campaign" /\ last.result = "CampaignExpired"
    /\ Live(last.campaign)
    /\ now = campaign[last.campaign].deadline
    /\ \E r \in LiveReceipts(last.campaign) :
          /\ receipt[r].timestamp = campaign[last.campaign].deadline - 1
          /\ campaign[last.campaign].current_amount >= receipt[r].amount
          /\ campaign[last.campaign].current_amount > 0

-----------------------------------------------------------------------------
(* C8: the fee law                                                         *)

\* C8: for every total a Funded campaign can hold, withdraw_and_complete
\* computes fee = floor(current_amount * 300 / 10000) and amount_to_executor
\* with fee + amount_to_executor = current_amount, without faulting.
C8_FeeLawForEveryFundedTotal ==
    \A c \in CampaignAddrs :
        (Live(c) /\ campaign[c].status = "Funded")
        => LET total == campaign[c].current_amount
               fee == PlatformFee(total)
           IN
           /\ fee # Overflow
           /\ fee = (total * 300) \div 10000
           /\ ExecutorShare(total, fee) # Overflow
           /\ fee + ExecutorShare(total, fee) = total

-----------------------------------------------------------------------------
(* C9: withdrawal                                                          *)

\* What a successful withdrawal of `total` from campaign c credits to wallet w.
WithdrawCredit(w, c, authority, executor, total) ==
    LET fee == (total * 300) \div 10000 IN
      (IF w = PLATFORM_WALLET THEN fee ELSE 0)
    + (IF w = executor THEN total - fee ELSE 0)
    + (IF w = authority THEN balance[c] - total ELSE 0)

\* C9: withdraw_and_complete succeeds only when status = Funded (otherwise
\* it fails, with CampaignNotFunded once the accounts passed are the right
\* ones, and changes nothing); on success the platform wallet receives
\* exactly fee, the executor exactly current_amount - fee, the authority the
\* storage deposit, and the campaign account is closed; while it is closed
\* every donate, withdraw, cancel and claim_refund against it fails.
C9_WithdrawSplitsAndCloses ==
    [][ \A c \in CampaignAddrs :
          /\ (Called("withdraw_and_complete") /\ last'.campaign = c /\ Live(c))
             => LET camp == campaign[c] IN
                /\ last'.result = "Ok" => camp.status = "Funded"
                /\ last'.result = "CampaignNotFunded" => camp.status # "Funded"
                /\ (camp.status # "Funded" /\ last'.signer = camp.authority)
                      => last'.result \in {"CampaignNotFunded", "InvalidPlatformWallet"}
                /\ last'.result # "Ok" => AccountsUnchanged
                /\ last'.result = "Ok" =>
                      /\ last'.signer = camp.authority
                      /\ last'.amount = camp.current_amount
                      /\ \A w \in Wallets :
                            balance'[w] = balance[w]
                               + WithdrawCredit(w, c, camp.authority,
                                                last'.executor, camp.current_amount)
                      /\ balance'[c] = 0
                      /\ campaign'[c] = NoAccount
                      /\ UNCHANGED receipt
          /\ (last'.op \in {"donate_to_campaign", "withdraw_and_complete",
                            "cancel_campaign", "claim_refund"}
                /\ last'.campaign = c /\ ~Live(c))
             => (last'.result = "AccountNotInitialized" /\ AccountsUnchanged)
      ]_vars

\* A total of 1000 was just withdrawn: executor 970, platform 30, campaign
\* account closed.
C9_Witness ==
    /\ last.op = "withdraw_and_complete" /\ last.result = "Ok"
    /\ last.amount = 1000
    /\ balance["executor"] = 970
    /\ balance[PLATFORM_WALLET] = 30
    /\ ~Live(last.campaign)

-----------------------------------------------------------------------------
(* C10: Funded and Cancelled exclude each other                            *)

\* C10: a Funded campaign stays Funded until a withdrawal closes it, and
\* every cancel_campaign on it fails, with CannotCancelCampaign when the
\* authority calls, also after the deadline; withdraw_and_complete on a
\* Cancelled campaign fails and a Cancelled campaign never becomes Funded.
C10_FundedAndCancelledExclusive ==
    [][ \A c \in CampaignAddrs :
          /\ (Live(c) /\ campaign[c].status = "Funded")
             => /\ \/ campaign'[c] = campaign[c]
                   \/ (Did("withdraw_and_complete", "Ok") /\ campaign'[c] = NoAccount)
                /\ (Called("cancel_campaign") /\ last'.campaign = c)
                      => /\ last'.result \in {"CannotCancelCampaign", "ConstraintHasOne"}
                         /\ last'.signer = campaign[c].authority
                               => last'.result = "CannotCancelCampaign"
                         /\ AccountsUnchanged
          /\ (Live(c) /\ campaign[c].status = "Cancelled")
             => /\ (Called("withdraw_and_complete") /\ last'.campaign = c)
                      => (last'.result # "Ok" /\ AccountsUnchanged)
                /\ campaign'[c] # NoAccount => campaign'[c].status # "Funded"
      ]_vars

\* The authority's cancel of a Funded campaign was just refused after the
\* deadline.
C10_Witness ==
    /\ last.op = "cancel_campaign" /\ last.result = "CannotCancelCampaign"
    /\ Live(last.campaign)
    /\ last.signer = campaign[last.campaign].authority
    /\ campaign[last.campaign].status = "Funded"
    /\ now > campaign[last.campaign].deadline

-----------------------------------------------------------------------------
(* C12: cancelling a campaign without donations                            *)

InstructionsOnCampaign ==
    {"donate_to_campaign", "withdraw_and_complete", "cancel_campaign", "claim_refund"}

\* C12: a successful cancel_campaign on a campaign with current_amount = 0
\* closes the campaign account and returns its lamports to the authority;
\* while the account is closed every donate, withdraw, cancel and
\* claim_refund against it fails as account-not-found, and only a successful
\* create_campaign brings an account back at that address.
C12_EmptyCancelCloses ==
    [][ \A c \in CampaignAddrs :
          /\ (Did("cancel_campaign", "Ok") /\ last'.campaign = c
                /\ campaign[c].current_amount = 0)
             => /\ campaign'[c] = NoAccount
                /\ balance'[c] = 0
                /\ balance'[campaign[c].authority] =
                       balance[campaign[c].authority] + balance[c]
                /\ UNCHANGED receipt
          /\ (last'.op \in InstructionsOnCampaign /\ last'.campaign = c /\ ~Live(c))
             => (last'.result = "AccountNotInitialized" /\ AccountsUnchanged)
          /\ (~Live(c) /\ campaign'[c] # NoAccount) => Did("create_campaign", "Ok")
      ]_vars

\* A campaign without donations was just cancelled and its account is gone,
\* the storage deposit back with the authority.
C12_Witness ==
    /\ last.op = "cancel_campaign" /\ last.result = "Ok"
    /\ last.amount = 0
    /\ ~Live(last.campaign)
    /\ balance[last.campaign] = 0
    /\ balance[last.signer] >= InitialBalance

-----------------------------------------------------------------------------
(* C13: failures have no effect                                            *)

Instructions == InstructionsOnCampaign \cup {"create_campaign"}

-----------------------------------------------------------------------------
(* C14: one receipt per donor and campaign                                 *)

\* C14: a donor who holds a live receipt for a campaign address cannot
\* donate to that address again: the donation fails and changes nothing; a
\* live receipt sits at the address of its (campaign, donor) pair, so there
\* is at most one per pair, and it stays as written until it is destroyed.
C14_OneReceiptPerDonor ==
    [][ /\ \A c \in CampaignAddrs, d \in Signers :
             (Called("donate_to_campaign") /\ last'.campaign = c
                /\ last'.signer = d /\ receipt[ReceiptPDA(c, d)] # NoAccount)
             => (last'.result # "Ok" /\ AccountsUnchanged)
        /\ \A r \in ReceiptAddrs :
             /\ receipt[r] # NoAccount
                   => (receipt'[r] = receipt[r] \/ receipt'[r] = NoAccount)
             /\ receipt'[r] # NoAccount
                   => r = ReceiptPDA(receipt'[r].campaign, receipt'[r].donor)
      ]_vars

\* A second donation by a donor whose donation the open campaign already
\* holds was just refused.
C14_Witness ==
    /\ last.op = "donate_to_campaign" /\ last.result = "AccountAlreadyInUse"
    /\ last.amount > 0
    /\ Live(last.campaign)
    /\ campaign[last.campaign].status = "Active"
    /\ now < campaign[last.campaign].deadline
    /\ receipt[last.receipt] # NoAccount
    /\ receipt[last.receipt].donor = last.signer
    /\ campaign[last.campaign].current_amount = receipt[last.receipt].amount

-----------------------------------------------------------------------------
(* C15: validation at creation                                             *)

\* Creation alone, with every boundary length of title and description:
\* campaigns are created, cancelled while empty, and created again.
BoundaryTitleLens == {0, 1, MAX_TITLE_LEN, MAX_TITLE_LEN + 1}

BoundaryDescriptionLens == {0, 1, MAX_DESCRIPTION_LEN, MAX_DESCRIPTION_LEN + 1}

NextCreate ==
    \/ \E a \in Creators, tl \in BoundaryTitleLens,
          dl \in BoundaryDescriptionLens, t \in Targets :
            CreateCampaign(a, tl, dl, t)
    \/ \E a \in Signers, c \in CampaignAddrs : CancelCampaign(a, c)
    \/ \E t \in ClockValues : Tick(t)

SpecCreate == Init /\ [][NextCreate]_vars

\* C15: a create_campaign whose account can be initialised succeeds only if
\* target_amount > 0, 1 <= len(title) <= 50 and 1 <= len(description) <= 500,
\* checked in that order and failing with InvalidTargetAmount, InvalidTitle
\* or InvalidDescription with no account created; on success the campaign is
\* Active with current_amount 0 and deadline = creation time + 30 days.
C15_CreateValidation ==
    [][ (Called("create_campaign") /\ last'.args # <<>>)
          => LET title_len == last'.args[1]
                 description_len == last'.args[2]
                 target_amount == last'.args[3]
                 c == last'.campaign
                 expected ==
                    IF ~(target_amount > 0) THEN "InvalidTargetAmount"
                    ELSE IF ~(1 <= title_len /\ title_len <= 50) THEN "InvalidTitle"
                    ELSE IF ~(1 <= description_len /\ description_len <= 500)
                         THEN "InvalidDescription"
                    ELSE "Ok"
             IN
             /\ last'.result = expected
             /\ last'.result # "Ok"
                   => (campaign'[c] = NoAccount /\ AccountsUnchanged)
             /\ last'.result = "Ok"
                   => /\ campaign[c] = NoAccount
                      /\ campaign'[c] # NoAccount
                      /\ campaign'[c].authority = last'.signer
                      /\ campaign'[c].target_amount = target_amount
                      /\ campaign'[c].status = "Active"
                      /\ campaign'[c].current_amount = 0
                      /\ campaign'[c].created_at = now
                      /\ campaign'[c].deadline = now + 2592000
                      /\ UNCHANGED receipt
      ]_vars

\* A campaign with a one-character title and a 500-character description
\* was just created.
C15_Witness ==
    /\ last.op = "create_campaign" /\ last.result = "Ok"
    /\ last.args[1] = 1 /\ last.args[2] = 500
    /\ Live(last.campaign)
    /\ campaign[last.campaign].status = "Active"
    /\ campaign[last.campaign].deadline = now + 2592000

-----------------------------------------------------------------------------
(* C16: who may withdraw, cancel and claim                                 *)

\* C16: withdraw_and_complete and cancel_campaign succeed only when the
\* signer is the campaign's stored authority, and claim_refund only when the
\* signer is the donor recorded on the receipt passed and that receipt
\* references the campaign; any other caller's attempt fails and changes
\* nothing.
C16_OnlyAuthorityAndDonor ==
    [][ \A c \in CampaignAddrs :
          (Live(c) /\ last'.campaign = c)
          => /\ (last'.op \in {"withdraw_and_complete", "cancel_campaign"}
                   /\ last'.signer # campaign[c].authority)
                => (last'.result # "Ok" /\ AccountsUnchanged)
             /\ (Called("cancel_campaign") /\ last'.signer # campaign[c].authority)
                => last'.result = "ConstraintHasOne"
             /\ (Called("claim_refund")
                   /\ \/ receipt[last'.receipt] = NoAccount
                      \/ receipt[last'.receipt].donor # last'.signer
                      \/ receipt[last'.receipt].campaign # c)
                => (last'.result # "Ok" /\ AccountsUnchanged)
      ]_vars

\* Someone other than the authority just tried to cancel an open campaign
\* that holds donations and was refused.
C16_Witness ==
    /\ last.op = "cancel_campaign" /\ last.result = "ConstraintHasOne"
    /\ Live(last.campaign)
    /\ last.signer # campaign[last.campaign].authority
    /\ campaign[last.campaign].status = "Active"
    /\ campaign[last.campaign].current_amount > 0

-----------------------------------------------------------------------------
(* C17: the life of a receipt                                              *)

\* C17: a live receipt is removed only by a successful claim_refund with
\* that receipt, which pays its amount to its donor; create_campaign,
\* donate_to_campaign, withdraw_and_complete and cancel_campaign leave every
\* existing receipt, and the lamports it holds, as they were, also when
\* they close the campaign the receipt references.
C17_ReceiptsOutliveEverythingButRefund ==
    [][ \A r \in ReceiptAddrs :
          receipt[r] # NoAccount
          => /\ last'.op \in {"create_campaign", "donate_to_campaign",
                              "withdraw_and_complete", "cancel_campaign"}
                => (receipt'[r] = receipt[r] /\ balance'[r] = balance[r])
             /\ receipt'[r] # receipt[r]
                => /\ Did("claim_refund", "Ok")
                   /\ last'.receipt = r
                   /\ receipt'[r] = NoAccount
                   /\ balance'[receipt[r].donor] =
                        balance[receipt[r].donor] + receipt[r].amount + balance[r]
      ]_vars

\* A campaign was just withdrawn and closed, and the receipts of its donors
\* are still live.
C17_Witness ==
    /\ last.op = "withdraw_and_complete" /\ last.result = "Ok"
    /\ ~Live(last.campaign)
    /\ LiveReceipts(last.campaign) # {}
    /\ SumReceipts(last.campaign) >= last.amount
    /\ \A r \in LiveReceipts(last.campaign) : balance[r] = ReceiptRent

-----------------------------------------------------------------------------
(* C18: how contributed value leaves custody                               *)

RECURSIVE SumBalances(_, _)
SumBalances(bal, S) ==
    IF S = {} THEN 0
    ELSE LET a == CHOOSE x \in S : TRUE IN bal[a] + SumBalances(bal, S \ {a})

\* C18: lamports leave a campaign account only in a withdraw_and_complete
\* of a Funded campaign, in a claim_refund, or as the bare storage deposit
\* of a campaign cancelled without donations; a cancel_campaign pays the
\* authority no more than that deposit; and every step conserves the total
\* of all balances.
C18_CustodyLeavesOnlyByWithdrawOrRefund ==
    [][ /\ \A c \in CampaignAddrs :
             Live(c)
             => /\ balance'[c] < balance[c]
                   => \/ (Did("withdraw_and_complete", "Ok")
                            /\ campaign[c].status = "Funded")
                      \/ Did("claim_refund", "Ok")
                      \/ (Did("cancel_campaign", "Ok")
                            /\ campaign[c].current_amount = 0)
                /\ (Did("cancel_campaign", "Ok") /\ last'.campaign = c)
                   => balance'[campaign[c].authority]
                         <= balance[campaign[c].authority] + CampaignRent
        /\ SumBalances(balance', AllAddrs) = SumBalances(balance, AllAddrs)
      ]_vars

-----------------------------------------------------------------------------
(* C19: status against the goal                                            *)

\* C19: in every reachable state a live Active campaign has
\* current_amount < target_amount, a live Funded campaign has
\* current_amount >= target_amount, and a live campaign has no status
\* other than Active, Funded or Cancelled.
C19_StatusMatchesGoal ==
    \A c \in CampaignAddrs :
        Live(c)
        => /\ campaign[c].status \in {"Active", "Funded", "Cancelled"}
           /\ campaign[c].status = "Active"
                 => campaign[c].current_amount < campaign[c].target_amount
           /\ campaign[c].status = "Funded"
                 => campaign[c].current_amount >= campaign[c].target_amount

\* A donation has just taken a campaign past its goal.
C19_Witness ==
    /\ last.op = "donate_to_campaign"
    /\ last.result = "Ok"
    /\ Live(last.campaign)
    /\ campaign[last.campaign].status = "Funded"
    /\ campaign[last.campaign].current_amount
          > campaign[last.campaign].target_amount

-----------------------------------------------------------------------------
(* C20: receipts of an earlier campaign at the same address                *)

\* C20: a live campaign whose current_amount is 0 has received no donation
\* since it was created, so any receipt at one of its receipt addresses was
\* issued for an earlier campaign of the same creator; such a receipt
\* neither makes a donation to the campaign fail because the receipt
\* address is in use, nor lets a claim_refund from the campaign succeed.
C20_ReceiptsDoNotCarryOver ==
    [][ \A c \in CampaignAddrs :
            (Live(c) /\ campaign[c].current_amount = 0 /\ last'.campaign = c)
            => /\ ~(last'.op = "donate_to_campaign"
                      /\ last'.result = "AccountAlreadyInUse")
               /\ ~(last'.op = "claim_refund" /\ last'.result = "Ok")
      ]_vars

====
